---- MODULE Spec2Model ----
(***************************************************************************)
(* Credit ledger and Stripe webhook synchronizer of dashboard.bfeai.       *)
(*                                                                         *)
(* The ledger (utils/credits) keeps one user_credits row per user and an   *)
(* append-only credit_transactions log.  The webhook handler dispatches    *)
(* Stripe events to the ledger and records processed event ids in          *)
(* stripe_events.  One user is modelled; every ledger function is an       *)
(* operator from a store (row + log) to a store and a result, computed the *)
(* way the source computes it.                                             *)
(***************************************************************************)
EXTENDS Integers, Sequences, FiniteSets, TLC

VARIABLES
    account,        \* the user's user_credits row (exists = FALSE: no row)
    txns,           \* credit_transactions, in insertion order
    subs,           \* app_subscriptions: app_key -> [status, priceId]
    now,            \* the clock, in days
    nops,           \* number of ledger calls made so far
    last,           \* the last ledger call: its name, arguments and outcome
    stripe_events,  \* ids of the ProcessedEventRecords
    pc,             \* per delivery: its position in the webhook handler
    dlv,            \* per delivery: the event it carries
    resp,           \* per delivery: the handler's response
    hist,           \* per delivery: what the invocation has done (history)
    proc            \* per concurrent caller: its ledger call in progress

vars == <<account, txns, subs, now, nops, last, stripe_events, pc, dlv, resp, hist, proc>>

ledgerVars == <<account, txns>>
webhookVars == <<stripe_events, pc, dlv, resp, hist>>

----------------------------------------------------------------------------
(* Bounds of the model *)

MaxOps == 4
MaxTime == 1
MaxDeliveries == 2
MaxCalls == 3

(* Program constants *)

DefaultCap == 900
DefaultMonthlyCredits == 300
TrialDays == 7

NULL == 0 - 1

Min(a, b) == IF a < b THEN a ELSE b
Max(a, b) == IF a > b THEN a ELSE b

Apps == {"keywords", "labs", "other"}

----------------------------------------------------------------------------
(* Collaborators of the ledger: the cost catalog and the plan catalog *)

\* app_credit_config rows: (app_key, operation) -> credit_cost, with is_active.
app_credit_config ==
    { [app_key |-> "keywords", operation |-> "search", credit_cost |-> 40,  is_active |-> TRUE],
      [app_key |-> "keywords", operation |-> "report", credit_cost |-> 200, is_active |-> TRUE],
      [app_key |-> "keywords", operation |-> "legacy", credit_cost |-> 10,  is_active |-> FALSE] }

Operations == {"search", "report", "legacy", "nosuch"}

\* config/plans: the subscription plans, in catalog order.
SUBSCRIPTION_PLANS ==
    << [appKey |-> "keywords", priceId |-> "price_keywords",  monthlyCredits |-> 300,  creditCap |-> 900],
       [appKey |-> "labs",     priceId |-> "price_labs_base", monthlyCredits |-> 500,  creditCap |-> 1500],
       [appKey |-> "labs",     priceId |-> "price_labs_pro",  monthlyCredits |-> 1000, creditCap |-> 3000] >>

NoPlan == [appKey |-> "", priceId |-> "", monthlyCredits |-> 0, creditCap |-> 0]

\* The catalog entry of the least index in idx, or NoPlan when idx is empty.
FirstPlan(idx) ==
    IF idx = {} THEN NoPlan
    ELSE SUBSCRIPTION_PLANS[CHOOSE i \in idx : \A j \in idx : i <= j]

findSubscriptionByPriceId(priceId) ==
    FirstPlan({i \in 1..Len(SUBSCRIPTION_PLANS) : SUBSCRIPTION_PLANS[i].priceId = priceId})

findSubscriptionPlan(appKey) ==
    FirstPlan({i \in 1..Len(SUBSCRIPTION_PLANS) : SUBSCRIPTION_PLANS[i].appKey = appKey})

\* Monthly grant: by price id, else first plan of the app, else 300.
getMonthlyCreditsForSubscription(appKey, priceId) ==
    LET plan == IF priceId /= "" THEN findSubscriptionByPriceId(priceId) ELSE NoPlan
        fallback == findSubscriptionPlan(appKey)
    IN  IF plan /= NoPlan THEN plan.monthlyCredits
        ELSE IF fallback /= NoPlan THEN fallback.monthlyCredits
        ELSE DefaultMonthlyCredits

getTrialCreditsForApp(appKey) == 100

----------------------------------------------------------------------------
(* The store: the user_credits row and the credit_transactions log *)

NoRow ==
    [exists |-> FALSE, sub |-> 0, topup |-> 0, trial |-> 0, exp |-> NULL,
     cap |-> 0, earned |-> 0, spent |-> 0]

\* The row `insert({ user_id })` creates: every column at its default.
NewRow ==
    [exists |-> TRUE, sub |-> 0, topup |-> 0, trial |-> 0, exp |-> NULL,
     cap |-> DefaultCap, earned |-> 0, spent |-> 0]

Txn(amount, balance_after, pool, type, app_key, reference_id) ==
    [amount |-> amount, balance_after |-> balance_after, pool |-> pool,
     type |-> type, app_key |-> app_key, reference_id |-> reference_id]

\* The outcome of a ledger call; each call fills the fields it returns.
Result ==
    [ok |-> TRUE, err |-> "", newBalance |-> 0, allocated |-> 0, merged |-> 0,
     cap |-> 0, required |-> 0, available |-> 0, transactionId |-> 0]

Out(acct, log, res) == [acct |-> acct, log |-> log, res |-> res]

Throw(acct, log, err) == Out(acct, log, [Result EXCEPT !.ok = FALSE, !.err = err])

----------------------------------------------------------------------------
(* Balance *)

\* getBalance with the expiry test `<=` for `<`: a trial gone on its last day.
getBalance_ExpiresEarly(acct, t) ==
    IF ~acct.exists
    THEN [subscriptionBalance |-> 0, topupBalance |-> 0, trialBalance |-> 0,
          total |-> 0, cap |-> DefaultCap, lifetimeEarned |-> 0, lifetimeSpent |-> 0]
    ELSE LET trialBalance == IF acct.exp /= NULL /\ acct.exp <= t THEN 0 ELSE acct.trial
         IN  [subscriptionBalance |-> acct.sub, topupBalance |-> acct.topup,
              trialBalance |-> trialBalance,
              total |-> acct.sub + acct.topup + trialBalance,
              cap |-> acct.cap, lifetimeEarned |-> acct.earned,
              lifetimeSpent |-> acct.spent]

\* getBalance(userId) at time t: the row's balances with the trial balance
\* reported as 0 once trial_expires_at has passed; a zeroed default without a row.
getBalance(acct, t) ==
    IF ~acct.exists
    THEN [subscriptionBalance |-> 0, topupBalance |-> 0, trialBalance |-> 0,
          total |-> 0, cap |-> DefaultCap, lifetimeEarned |-> 0, lifetimeSpent |-> 0]
    ELSE LET trialBalance == IF acct.exp /= NULL /\ acct.exp < t THEN 0 ELSE acct.trial
         IN  [subscriptionBalance |-> acct.sub, topupBalance |-> acct.topup,
              trialBalance |-> trialBalance,
              total |-> acct.sub + acct.topup + trialBalance,
              cap |-> acct.cap, lifetimeEarned |-> acct.earned,
              lifetimeSpent |-> acct.spent]

\* getCreditCost without the is_active filter.
getCreditCost_AnyEntry(appKey, operation) ==
    {r.credit_cost : r \in {c \in app_credit_config :
        c.app_key = appKey /\ c.operation = operation}}

\* getCreditCost: the active cost entry of (appKey, operation); {} when there is none.
getCreditCost(appKey, operation) ==
    {r.credit_cost : r \in {c \in app_credit_config :
        c.app_key = appKey /\ c.operation = operation /\ c.is_active}}

----------------------------------------------------------------------------
(* Deduction: trial first, then top-up, then subscription *)

\* deductCredits draining the top-up pool before the trial pool.
deductCredits_TopupFirst(st, t, appKey, operation, referenceId, dbOk) ==
    LET costs == getCreditCost(appKey, operation) IN
    IF costs = {} THEN Throw(st.acct, st.log, "UnknownOperation")
    ELSE IF ~dbOk THEN Throw(st.acct, st.log, "StoreUnavailable")
    ELSE
    LET cost == CHOOSE c \in costs : TRUE
        balance == getBalance(st.acct, t)
    IN
    IF balance.total < cost
    THEN Out(st.acct, st.log,
             [Result EXCEPT !.ok = FALSE, !.err = "InsufficientCredits",
                            !.required = cost, !.available = balance.total])
    ELSE
    LET deductFromTopup == Min(cost, balance.topupBalance)
        remainingAfterTopup == cost - deductFromTopup
        deductFromTrial == Min(remainingAfterTopup, balance.trialBalance)
        deductFromSub == remainingAfterTopup - deductFromTrial
        newBalance == balance.total - cost
        acct1 == IF st.acct.exists
                 THEN [st.acct EXCEPT !.trial = balance.trialBalance - deductFromTrial,
                                      !.topup = balance.topupBalance - deductFromTopup,
                                      !.sub = balance.subscriptionBalance - deductFromSub,
                                      !.spent = balance.lifetimeSpent + cost]
                 ELSE st.acct
        log1 == Append(st.log, Txn(-cost, newBalance, "topup", "usage_deduction",
                                   appKey, referenceId))
    IN  Out(acct1, log1,
            [Result EXCEPT !.newBalance = newBalance, !.transactionId = Len(log1)])

\* deductCredits without the sufficiency check.
deductCredits_Unchecked(st, t, appKey, operation, referenceId, dbOk) ==
    LET costs == getCreditCost(appKey, operation) IN
    IF costs = {} THEN Throw(st.acct, st.log, "UnknownOperation")
    ELSE IF ~dbOk THEN Throw(st.acct, st.log, "StoreUnavailable")
    ELSE
    LET cost == CHOOSE c \in costs : TRUE
        balance == getBalance(st.acct, t)
        deductFromTrial == Min(cost, balance.trialBalance)
        remainingAfterTrial == cost - deductFromTrial
        deductFromTopup == Min(remainingAfterTrial, balance.topupBalance)
        deductFromSub == remainingAfterTrial - deductFromTopup
        newBalance == balance.total - cost
        acct1 == IF st.acct.exists
                 THEN [st.acct EXCEPT !.trial = balance.trialBalance - deductFromTrial,
                                      !.topup = balance.topupBalance - deductFromTopup,
                                      !.sub = balance.subscriptionBalance - deductFromSub,
                                      !.spent = balance.lifetimeSpent + cost]
                 ELSE st.acct
        log1 == Append(st.log, Txn(-cost, newBalance, "subscription", "usage_deduction",
                                   appKey, referenceId))
    IN  Out(acct1, log1,
            [Result EXCEPT !.newBalance = newBalance, !.transactionId = Len(log1)])

\* deductCredits logging the whole cost as one row, whatever pools it drained.
deductCredits_OneRow(st, t, appKey, operation, referenceId, dbOk) ==
    LET costs == getCreditCost(appKey, operation) IN
    IF costs = {} THEN Throw(st.acct, st.log, "UnknownOperation")
    ELSE IF ~dbOk THEN Throw(st.acct, st.log, "StoreUnavailable")
    ELSE
    LET cost == CHOOSE c \in costs : TRUE
        balance == getBalance(st.acct, t)
    IN
    IF balance.total < cost
    THEN Out(st.acct, st.log,
             [Result EXCEPT !.ok = FALSE, !.err = "InsufficientCredits",
                            !.required = cost, !.available = balance.total])
    ELSE
    LET deductFromTrial == Min(cost, balance.trialBalance)
        remainingAfterTrial == cost - deductFromTrial
        deductFromTopup == Min(remainingAfterTrial, balance.topupBalance)
        deductFromSub == remainingAfterTrial - deductFromTopup
        newBalance == balance.total - cost
        acct1 == IF st.acct.exists
                 THEN [st.acct EXCEPT !.trial = balance.trialBalance - deductFromTrial,
                                      !.topup = balance.topupBalance - deductFromTopup,
                                      !.sub = balance.subscriptionBalance - deductFromSub,
                                      !.spent = balance.lifetimeSpent + cost]
                 ELSE st.acct
        log1 == Append(st.log, Txn(-cost, newBalance, "subscription", "usage_deduction",
                                   appKey, referenceId))
    IN  Out(acct1, log1,
            [Result EXCEPT !.newBalance = newBalance, !.transactionId = Len(log1)])

\* dbOk = FALSE: the select of getBalance fails, and getBalance throws.
deductCredits(st, t, appKey, operation, referenceId, dbOk) ==
    LET costs == getCreditCost(appKey, operation) IN
    IF costs = {} THEN Throw(st.acct, st.log, "UnknownOperation")
    ELSE IF ~dbOk THEN Throw(st.acct, st.log, "StoreUnavailable")
    ELSE
    LET cost == CHOOSE c \in costs : TRUE
        balance == getBalance(st.acct, t)
    IN
    IF balance.total < cost
    THEN Out(st.acct, st.log,
             [Result EXCEPT !.ok = FALSE, !.err = "InsufficientCredits",
                            !.required = cost, !.available = balance.total])
    ELSE
    LET deductFromTrial == Min(cost, balance.trialBalance)
        remainingAfterTrial == cost - deductFromTrial
        deductFromTopup == Min(remainingAfterTrial, balance.topupBalance)
        deductFromSub == remainingAfterTrial - deductFromTopup
        newTrial == balance.trialBalance - deductFromTrial
        newTopup == balance.topupBalance - deductFromTopup
        newSub == balance.subscriptionBalance - deductFromSub
        newBalance == balance.total - cost
        acct1 == IF st.acct.exists
                 THEN [st.acct EXCEPT !.trial = newTrial, !.topup = newTopup,
                                      !.sub = newSub,
                                      !.spent = balance.lifetimeSpent + cost]
                 ELSE st.acct
        log1 == IF deductFromTrial > 0
                THEN Append(st.log, Txn(-deductFromTrial, balance.total - deductFromTrial,
                                        "trial", "usage_deduction", appKey, referenceId))
                ELSE st.log
        log2 == IF deductFromTopup > 0
                THEN Append(log1, Txn(-deductFromTopup,
                                      balance.total - deductFromTrial - deductFromTopup,
                                      "topup", "usage_deduction", appKey, referenceId))
                ELSE log1
        log3 == IF deductFromSub > 0
                THEN Append(log2, Txn(-deductFromSub, newBalance,
                                      "subscription", "usage_deduction", appKey, referenceId))
                ELSE log2
        lastTransactionId == IF Len(log3) > Len(st.log) THEN Len(log3) ELSE 0
    IN  Out(acct1, log3,
            [Result EXCEPT !.newBalance = newBalance, !.transactionId = lastTransactionId])

----------------------------------------------------------------------------
(* Allocations *)

ensureUserCreditsRow(acct) == IF acct.exists THEN acct ELSE NewRow

\* allocateSubscriptionCredits granting the full amount whatever the cap.
allocateSubscriptionCredits_Uncapped(st, t, amount, appKey, referenceId, dbOk) ==
    LET acct0 == ensureUserCreditsRow(st.acct) IN
    IF ~dbOk THEN Throw(acct0, st.log, "StoreUnavailable")
    ELSE
    LET balance == getBalance(acct0, t)
    IN  Out([acct0 EXCEPT !.sub = balance.subscriptionBalance + amount,
                          !.earned = balance.lifetimeEarned + amount],
            Append(st.log, Txn(amount, balance.total + amount, "subscription",
                               "subscription_allocation", appKey, referenceId)),
            [Result EXCEPT !.newBalance = balance.total + amount, !.allocated = amount])

allocateSubscriptionCredits(st, t, amount, appKey, referenceId, dbOk) ==
    LET acct0 == ensureUserCreditsRow(st.acct) IN
    IF ~dbOk THEN Throw(acct0, st.log, "StoreUnavailable")
    ELSE
    LET balance == getBalance(acct0, t)
        headroom == Max(0, balance.cap - balance.subscriptionBalance)
        allocated == Min(amount, headroom)
        newSubBalance == balance.subscriptionBalance + allocated
        newTotal == balance.total + allocated
    IN
    IF allocated = 0
    THEN Out(acct0, st.log, [Result EXCEPT !.newBalance = balance.total, !.allocated = 0])
    ELSE Out([acct0 EXCEPT !.sub = newSubBalance,
                           !.earned = balance.lifetimeEarned + allocated],
             Append(st.log, Txn(allocated, newTotal, "subscription",
                                "subscription_allocation", appKey, referenceId)),
             [Result EXCEPT !.newBalance = newTotal, !.allocated = allocated])

\* The top-up pool filled only up to the subscription cap.
allocateToTopupPool_Capped(st, t, amount, type, referenceId, dbOk) ==
    LET acct0 == ensureUserCreditsRow(st.acct) IN
    IF ~dbOk THEN Throw(acct0, st.log, "StoreUnavailable")
    ELSE
    LET balance == getBalance(acct0, t)
        allocated == Min(amount, Max(0, balance.cap - balance.subscriptionBalance))
    IN  Out([acct0 EXCEPT !.topup = balance.topupBalance + allocated,
                          !.earned = balance.lifetimeEarned + allocated],
            Append(st.log, Txn(allocated, balance.total + allocated, "topup", type,
                               "", referenceId)),
            [Result EXCEPT !.newBalance = balance.total + allocated,
                           !.allocated = allocated])

\* allocateTopUpCredits and allocateRetentionBonus differ in the transaction's
\* type and reference only.
allocateToTopupPool(st, t, amount, type, referenceId, dbOk) ==
    LET acct0 == ensureUserCreditsRow(st.acct) IN
    IF ~dbOk THEN Throw(acct0, st.log, "StoreUnavailable")
    ELSE
    LET balance == getBalance(acct0, t)
        newTopup == balance.topupBalance + amount
        newTotal == balance.total + amount
    IN  Out([acct0 EXCEPT !.topup = newTopup,
                          !.earned = balance.lifetimeEarned + amount],
            Append(st.log, Txn(amount, newTotal, "topup", type, "", referenceId)),
            [Result EXCEPT !.newBalance = newTotal, !.allocated = amount])

allocateTopUpCredits(st, t, amount, referenceId, dbOk) ==
    allocateToTopupPool(st, t, amount, "topup_purchase", referenceId, dbOk)

allocateRetentionBonus(st, t, amount, dbOk) ==
    allocateToTopupPool(st, t, amount, "retention_bonus", 0, dbOk)

----------------------------------------------------------------------------
(* Trial credits *)

\* allocateTrialCredits adding to the trial balance it finds.
allocateTrialCredits_Additive(st, t, amount, appKey, trialEndsAt, referenceId, dbOk) ==
    LET acct0 == ensureUserCreditsRow(st.acct) IN
    IF ~dbOk THEN Throw(acct0, st.log, "StoreUnavailable")
    ELSE
    LET balance == getBalance(acct0, t)
    IN  Out([acct0 EXCEPT !.trial = balance.trialBalance + amount, !.exp = trialEndsAt,
                          !.earned = balance.lifetimeEarned + amount],
            Append(st.log, Txn(amount, balance.total + amount, "trial",
                               "trial_allocation", appKey, referenceId)),
            [Result EXCEPT !.newBalance = balance.total + amount, !.allocated = amount])

allocateTrialCredits(st, t, amount, appKey, trialEndsAt, referenceId, dbOk) ==
    LET acct0 == ensureUserCreditsRow(st.acct) IN
    IF ~dbOk THEN Throw(acct0, st.log, "StoreUnavailable")
    ELSE
    LET balance == getBalance(acct0, t)
    IN  Out([acct0 EXCEPT !.trial = amount, !.exp = trialEndsAt,
                          !.earned = balance.lifetimeEarned + amount],
            Append(st.log, Txn(amount, balance.total + amount, "trial",
                               "trial_allocation", appKey, referenceId)),
            [Result EXCEPT !.newBalance = balance.total + amount, !.allocated = amount])

\* expireTrialCredits booking the lost trial credits as spent.
expireTrialCredits_AsSpend(st, t, appKey, dbOk) ==
    LET trialBalance == IF st.acct.exists THEN st.acct.trial ELSE 0 IN
    IF trialBalance = 0 THEN Out(st.acct, st.log, Result)
    ELSE
    LET acct1 == [st.acct EXCEPT !.trial = 0, !.exp = NULL, !.spent = @ + trialBalance]
    IN  Out(acct1,
            Append(st.log, Txn(-trialBalance, getBalance(acct1, t).total, "trial",
                               "trial_expiry", appKey, 0)),
            Result)

\* dbOk = FALSE: the getBalance that follows the update throws.
expireTrialCredits(st, t, appKey, dbOk) ==
    LET trialBalance == IF st.acct.exists THEN st.acct.trial ELSE 0 IN
    IF trialBalance = 0 THEN Out(st.acct, st.log, Result)
    ELSE
    LET acct1 == [st.acct EXCEPT !.trial = 0, !.exp = NULL] IN
    IF ~dbOk THEN Throw(acct1, st.log, "StoreUnavailable")
    ELSE
    LET balance == getBalance(acct1, t)
    IN  Out(acct1,
            Append(st.log, Txn(-trialBalance, balance.total, "trial",
                               "trial_expiry", appKey, 0)),
            Result)

\* mergeTrialCredits netting the overflow into one trial_merge row.
mergeTrialCredits_Netted(st, t, appKey, dbOk) ==
    LET trialBalance == IF st.acct.exists THEN st.acct.trial ELSE 0 IN
    IF trialBalance = 0 THEN Out(st.acct, st.log, [Result EXCEPT !.merged = 0])
    ELSE
    LET subBalance == st.acct.sub
        merged == Min(trialBalance, Max(0, st.acct.cap - subBalance))
        acct1 == [st.acct EXCEPT !.trial = 0, !.exp = NULL, !.sub = subBalance + merged]
    IN  Out(acct1,
            Append(st.log, Txn(merged, getBalance(acct1, t).total, "subscription",
                               "trial_merge", appKey, 0)),
            [Result EXCEPT !.merged = merged])

\* dbOk = FALSE: the first getBalance that follows the update throws.
mergeTrialCredits(st, t, appKey, dbOk) ==
    LET trialBalance == IF st.acct.exists THEN st.acct.trial ELSE 0 IN
    IF trialBalance = 0 THEN Out(st.acct, st.log, [Result EXCEPT !.merged = 0])
    ELSE
    LET subBalance == st.acct.sub
        cap == st.acct.cap
        headroom == Max(0, cap - subBalance)
        merged == Min(trialBalance, headroom)
        acct1 == [st.acct EXCEPT !.trial = 0, !.exp = NULL, !.sub = subBalance + merged]
        lost == trialBalance - merged
        total == getBalance(acct1, t).total
    IN
    IF ~dbOk THEN Throw(acct1, st.log, "StoreUnavailable")
    ELSE
    LET log1 == IF merged > 0
                THEN Append(st.log, Txn(merged, total, "subscription",
                                        "trial_merge", appKey, 0))
                ELSE st.log
        log2 == IF lost > 0
                THEN Append(log1, Txn(-lost, total, "trial",
                                      "trial_merge_overflow", appKey, 0))
                ELSE log1
    IN  Out(acct1, log2, [Result EXCEPT !.merged = merged])

----------------------------------------------------------------------------
(* Cap reconciliation *)

QualifyingStatuses == {"active", "trialing", "past_due"}

\* The contribution resolved by app key before price id.
capContribution_AppKeyFirst(sub) ==
    LET plan == IF sub.priceId /= "" THEN findSubscriptionByPriceId(sub.priceId) ELSE NoPlan
        fallback == findSubscriptionPlan(sub.app_key)
    IN  IF fallback /= NoPlan THEN fallback.creditCap
        ELSE IF plan /= NoPlan THEN plan.creditCap
        ELSE DefaultCap

\* One subscription record's contribution to the cap.
capContribution(sub) ==
    LET plan == IF sub.priceId /= "" THEN findSubscriptionByPriceId(sub.priceId) ELSE NoPlan
        fallback == findSubscriptionPlan(sub.app_key)
    IN  IF plan /= NoPlan THEN plan.creditCap
        ELSE IF fallback /= NoPlan THEN fallback.creditCap
        ELSE DefaultCap

RECURSIVE SumCaps(_)
SumCaps(S) ==
    IF S = {} THEN 0
    ELSE LET x == CHOOSE y \in S : TRUE
         IN  capContribution(x) + SumCaps(S \ {x})

\* table: app_subscriptions (app_key -> record); lookupOk = FALSE: the select fails.
recalculateSubscriptionCap(st, table, lookupOk) ==
    IF ~lookupOk THEN Out(st.acct, st.log, [Result EXCEPT !.cap = DefaultCap])
    ELSE
    LET rows == {[app_key |-> a, priceId |-> table[a].priceId] :
                    a \in {b \in DOMAIN table : table[b].present
                                              /\ table[b].status \in QualifyingStatuses}}
        totalCap == IF rows = {} THEN DefaultCap ELSE SumCaps(rows)
        acct1 == IF st.acct.exists THEN [st.acct EXCEPT !.cap = totalCap] ELSE st.acct
    IN  Out(acct1, st.log, [Result EXCEPT !.cap = totalCap])

\* syncAppSubscription: upsert of the (user, app) record; a subscription whose
\* collection is paused is stored as "paused".
syncAppSubscription(table, appKey, status, isPaused, priceId) ==
    [table EXCEPT ![appKey] = [present |-> TRUE,
                               status |-> IF isPaused THEN "paused" ELSE status,
                               priceId |-> priceId]]

----------------------------------------------------------------------------
(* The ledger called directly: one action per exported function *)

NoSub == [present |-> FALSE, status |-> "", priceId |-> ""]

ZeroBalance == getBalance(NoRow, 0)

Args == [appKey |-> "", operation |-> "", amount |-> 0, trialEndsAt |-> NULL]

St == [acct |-> account, log |-> txns]

\* Inputs of the direct calls
DeductApps == {"keywords"}
SubscriptionAmounts == {300, 1000}
TopUpAmounts == {50}
BonusAmounts == {25}
TrialAmounts == {100}
TrialEnds(t) == {t, t + TrialDays}
SyncApps == {"labs"}
SyncStatuses == {"active", "paused", "canceled"}
PriceOf(appKey) == IF appKey = "keywords" THEN "price_keywords" ELSE "price_labs_base"

\* The call `op` with arguments `args` ended as `out`.
Call(op, args, out) ==
    /\ nops < MaxOps
    /\ nops' = nops + 1
    /\ account' = out.acct
    /\ txns' = out.log
    /\ last' = [op |-> op, args |-> args, res |-> out.res, balance |-> ZeroBalance]
    /\ UNCHANGED <<subs, now, webhookVars, proc>>

\* getBalance purging an expired trial from the row as it reads.
GetBalance_Purging ==
    /\ nops < MaxOps
    /\ nops' = nops + 1
    /\ last' = [op |-> "getBalance", args |-> Args, res |-> Result,
                balance |-> getBalance(account, now)]
    /\ account' = IF account.exists /\ account.exp /= NULL /\ account.exp < now
                  THEN [account EXCEPT !.trial = 0, !.exp = NULL]
                  ELSE account
    /\ UNCHANGED <<txns, subs, now, webhookVars, proc>>

GetBalance ==
    /\ nops < MaxOps
    /\ nops' = nops + 1
    /\ last' = [op |-> "getBalance", args |-> Args, res |-> Result,
                balance |-> getBalance(account, now)]
    /\ UNCHANGED <<account, txns, subs, now, webhookVars, proc>>

Deduct(appKey, operation) ==
    Call("deductCredits", [Args EXCEPT !.appKey = appKey, !.operation = operation],
         deductCredits(St, now, appKey, operation, 0, TRUE))

AllocateSubscription(amount, appKey) ==
    Call("allocateSubscriptionCredits", [Args EXCEPT !.appKey = appKey, !.amount = amount],
         allocateSubscriptionCredits(St, now, amount, appKey, 0, TRUE))

AllocateTopUp(amount) ==
    Call("allocateTopUpCredits", [Args EXCEPT !.amount = amount],
         allocateTopUpCredits(St, now, amount, 0, TRUE))

AllocateBonus(amount) ==
    Call("allocateRetentionBonus", [Args EXCEPT !.amount = amount],
         allocateRetentionBonus(St, now, amount, TRUE))

AllocateTrial(amount, appKey, trialEndsAt) ==
    Call("allocateTrialCredits",
         [Args EXCEPT !.appKey = appKey, !.amount = amount, !.trialEndsAt = trialEndsAt],
         allocateTrialCredits(St, now, amount, appKey, trialEndsAt, 0, TRUE))

ExpireTrial(appKey) ==
    Call("expireTrialCredits", [Args EXCEPT !.appKey = appKey],
         expireTrialCredits(St, now, appKey, TRUE))

MergeTrial(appKey) ==
    Call("mergeTrialCredits", [Args EXCEPT !.appKey = appKey],
         mergeTrialCredits(St, now, appKey, TRUE))

RecalculateCap ==
    Call("recalculateSubscriptionCap", Args,
         recalculateSubscriptionCap(St, subs, TRUE))

\* The subscription view changes (the webhook's sync, seen from the ledger).
SyncSubscription(appKey, status) ==
    /\ subs' = syncAppSubscription(subs, appKey, status, status = "paused", PriceOf(appKey))
    /\ subs' /= subs
    /\ UNCHANGED <<account, txns, now, nops, last, webhookVars, proc>>

Tick ==
    /\ now < MaxTime
    /\ now' = now + 1
    /\ UNCHANGED <<account, txns, subs, nops, last, webhookVars, proc>>

\* The concurrent callers of the ledger (two requests for the same user).
Procs == {"a", "b"}

\* A caller at rest.  snap is the row its call read, fields/row the update it
\* computed from that read, rows the transactions it has still to insert; the
\* last four fields are history: an update or insert was rejected, the update
\* changed the row, the number of rows inserted and of rows to insert.
NoProc ==
    [pc |-> "idle", op |-> "", args |-> Args, snap |-> NoRow,
     fields |-> {}, row |-> NoRow, rows |-> <<>>, res |-> Result,
     rejected |-> FALSE, updated |-> FALSE, inserted |-> 0, planned |-> 0]

Deliveries == 1..MaxDeliveries

NoEvent ==
    [id |-> 0, type |-> "", known |-> FALSE, metaType |-> "", credits |-> 0,
     hasSub |-> FALSE, reason |-> "", app |-> "", priceId |-> "", status |-> "",
     trialEnd |-> FALSE, paused |-> FALSE]

NoHist ==
    [replay |-> FALSE, ran |-> FALSE, raised |-> FALSE, wrote |-> FALSE, marks |-> 0,
     fault |-> ""]

Init ==
    /\ account = NoRow
    /\ txns = <<>>
    /\ subs = [a \in Apps |-> NoSub]
    /\ now = 0
    /\ nops = 0
    /\ last = [op |-> "", args |-> Args, res |-> Result, balance |-> ZeroBalance]
    /\ stripe_events = {}
    /\ pc = [d \in Deliveries |-> "idle"]
    /\ dlv = [d \in Deliveries |-> NoEvent]
    /\ resp = [d \in Deliveries |-> ""]
    /\ hist = [d \in Deliveries |-> NoHist]
    /\ proc = [p \in Procs |-> NoProc]

\* The ledger under direct, sequential calls whose store reads succeed.
Next ==
    \/ GetBalance
    \/ \E a \in DeductApps, o \in Operations : Deduct(a, o)
    \/ \E n \in SubscriptionAmounts : AllocateSubscription(n, "keywords")
    \/ \E n \in TopUpAmounts : AllocateTopUp(n)
    \/ \E n \in BonusAmounts : AllocateBonus(n)
    \/ \E n \in TrialAmounts, e \in TrialEnds(now) : AllocateTrial(n, "keywords", e)
    \/ ExpireTrial("keywords")
    \/ MergeTrial("keywords")
    \/ RecalculateCap
    \/ \E a \in SyncApps, s \in SyncStatuses : SyncSubscription(a, s)
    \/ Tick

Spec == Init /\ [][Next]_vars

----------------------------------------------------------------------------
(* The Stripe webhook handler *)

\* What can fail during one run of an event handler: nothing, the Stripe API
\* (its calls throw), the store read of getBalance (getBalance throws), or the
\* select of app_subscriptions in the cap recalculation (which is logged).
Faults == {"none", "stripe", "db", "subs"}

Ret(acct, log, table, raised) ==
    [acct |-> acct, log |-> log, subs |-> table, raised |-> raised]

\* isEventProcessed finding no record, whatever the table holds.
isEventProcessed_Never(table, eventId) == FALSE

isEventProcessed(table, eventId) == eventId \in table

markEventProcessed(table, eventId) == table \cup {eventId}

\* getBundleEligibility: two or more distinct apps with a qualifying subscription.
getBundleEligibility(table) ==
    Cardinality({a \in DOMAIN table :
        table[a].present /\ table[a].status \in QualifyingStatuses}) >= 2

handleCheckoutCompleted(ws, t, ev, fault) ==
    IF ~ev.known THEN Ret(ws.acct, ws.log, ws.subs, FALSE)
    ELSE IF ev.metaType = "topup"
    THEN IF ev.credits > 0
         THEN LET o == allocateTopUpCredits(ws, t, ev.credits, ev.id, fault /= "db")
              IN  Ret(o.acct, o.log, ws.subs, ~o.res.ok)
         ELSE Ret(ws.acct, ws.log, ws.subs, FALSE)
    ELSE IF ev.metaType = "trial"
    THEN LET o == allocateTrialCredits(ws, t, getTrialCreditsForApp(ev.app), ev.app,
                                       t + TrialDays, ev.id, fault /= "db")
         IN  Ret(o.acct, o.log, ws.subs, ~o.res.ok)
    ELSE Ret(ws.acct, ws.log, ws.subs, FALSE)

\* The invoice handler granting the month's credits before it merges the trial.
handleInvoicePaymentSucceeded_AllocFirst(ws, t, ev, fault) ==
    IF ~ev.hasSub \/ ~ev.known THEN Ret(ws.acct, ws.log, ws.subs, FALSE)
    ELSE
    LET retrieved == fault /= "stripe"
        appKey == IF retrieved THEN ev.app ELSE "keywords"
        priceId == IF retrieved THEN ev.priceId ELSE ""
    IN
    IF retrieved /\ ev.reason = "subscription_create" /\ ev.status = "trialing"
    THEN Ret(ws.acct, ws.log, ws.subs, FALSE)
    ELSE
    LET monthlyCredits == getMonthlyCreditsForSubscription(appKey, priceId)
        a == allocateSubscriptionCredits(ws, t, monthlyCredits, appKey, ev.id, fault /= "db")
        m == IF retrieved /\ ev.reason = "subscription_cycle"
             THEN mergeTrialCredits(a, t, appKey, fault /= "db")
             ELSE Out(a.acct, a.log, Result)
        c == recalculateSubscriptionCap(m, ws.subs, fault /= "subs")
    IN  IF ~a.res.ok THEN Ret(a.acct, a.log, ws.subs, TRUE)
        ELSE Ret(c.acct, c.log, ws.subs, FALSE)

handleInvoicePaymentSucceeded(ws, t, ev, fault) ==
    IF ~ev.hasSub \/ ~ev.known THEN Ret(ws.acct, ws.log, ws.subs, FALSE)
    ELSE
    LET retrieved == fault /= "stripe"
        appKey == IF retrieved THEN ev.app ELSE "keywords"
        priceId == IF retrieved THEN ev.priceId ELSE ""
    IN
    IF retrieved /\ ev.reason = "subscription_create" /\ ev.status = "trialing"
    THEN Ret(ws.acct, ws.log, ws.subs, FALSE)
    ELSE
    LET \* a throw of mergeTrialCredits is caught with the lookup's
        m == IF retrieved /\ ev.reason = "subscription_cycle"
             THEN mergeTrialCredits(ws, t, appKey, fault /= "db")
             ELSE Out(ws.acct, ws.log, Result)
        monthlyCredits == getMonthlyCreditsForSubscription(appKey, priceId)
        a == allocateSubscriptionCredits(m, t, monthlyCredits, appKey, ev.id, fault /= "db")
        c == recalculateSubscriptionCap(a, ws.subs, fault /= "subs")
    IN  IF ~a.res.ok THEN Ret(a.acct, a.log, ws.subs, TRUE)
        ELSE Ret(c.acct, c.log, ws.subs, FALSE)

\* The sync and the recalculation with a recalculation that throws when its
\* lookup fails.
syncAndRecalculate_FailHard(ws, ev, fault) ==
    LET table == syncAppSubscription(ws.subs, ev.app, ev.status, ev.paused, ev.priceId)
        c == recalculateSubscriptionCap(ws, table, fault /= "subs")
    IN  Ret(c.acct, c.log, table, fault = "subs")

\* The sync and the cap recalculation that open every subscription handler.
syncAndRecalculate(ws, ev, fault) ==
    LET table == syncAppSubscription(ws.subs, ev.app, ev.status, ev.paused, ev.priceId)
        c == recalculateSubscriptionCap(ws, table, fault /= "subs")
    IN  Ret(c.acct, c.log, table, FALSE)

\* The update handler expiring the trial whenever the status is not trialing.
handleSubscriptionUpdated_ExpiresOnActive(ws, t, ev, fault) ==
    IF ~ev.known THEN Ret(ws.acct, ws.log, ws.subs, FALSE)
    ELSE
    LET s == syncAndRecalculate(ws, ev, fault) IN
    IF fault = "stripe" THEN Ret(s.acct, s.log, s.subs, TRUE)
    ELSE IF ev.status /= "trialing" /\ ev.trialEnd
    THEN LET x == expireTrialCredits(s, t, ev.app, fault /= "db")
         IN  Ret(x.acct, x.log, s.subs, ~x.res.ok)
    ELSE s

handleSubscriptionUpdated(ws, t, ev, fault) ==
    IF ~ev.known THEN Ret(ws.acct, ws.log, ws.subs, FALSE)
    ELSE
    LET s == syncAndRecalculate(ws, ev, fault) IN
    \* applyBundleDiscountIfEligible / removeBundleDiscountIfIneligible: one of the
    \* two lists the customer's Stripe subscriptions
    IF fault = "stripe" THEN Ret(s.acct, s.log, s.subs, TRUE)
    ELSE IF ev.status /= "trialing" /\ ev.trialEnd /\ ev.status /= "active"
    THEN LET x == expireTrialCredits(s, t, ev.app, fault /= "db")
         IN  Ret(x.acct, x.log, s.subs, ~x.res.ok)
    ELSE s

\* deleted and paused: removeBundleDiscountIfIneligible lists the Stripe
\* subscriptions when the user is not bundle-eligible.
handleSubscriptionDeleted(ws, t, ev, fault) ==
    IF ~ev.known THEN Ret(ws.acct, ws.log, ws.subs, FALSE)
    ELSE LET s == syncAndRecalculate(ws, ev, fault)
         IN  Ret(s.acct, s.log, s.subs, fault = "stripe" /\ ~getBundleEligibility(s.subs))

handleSubscriptionPaused(ws, t, ev, fault) == handleSubscriptionDeleted(ws, t, ev, fault)

\* resumed: applyBundleDiscountIfEligible lists them when the user is eligible.
handleSubscriptionResumed(ws, t, ev, fault) ==
    IF ~ev.known THEN Ret(ws.acct, ws.log, ws.subs, FALSE)
    ELSE LET s == syncAndRecalculate(ws, ev, fault)
         IN  Ret(s.acct, s.log, s.subs, fault = "stripe" /\ getBundleEligibility(s.subs))

\* The switch on the event type; the other types touch neither ledger nor view.
dispatch(ws, t, ev, fault) ==
    CASE ev.type = "checkout.session.completed" -> handleCheckoutCompleted(ws, t, ev, fault)
      [] ev.type = "invoice.payment_succeeded" -> handleInvoicePaymentSucceeded(ws, t, ev, fault)
      [] ev.type = "customer.subscription.updated" -> handleSubscriptionUpdated(ws, t, ev, fault)
      [] ev.type = "customer.subscription.deleted" -> handleSubscriptionDeleted(ws, t, ev, fault)
      [] ev.type = "customer.subscription.paused" -> handleSubscriptionPaused(ws, t, ev, fault)
      [] ev.type = "customer.subscription.resumed" -> handleSubscriptionResumed(ws, t, ev, fault)
      [] OTHER -> Ret(ws.acct, ws.log, ws.subs, FALSE)

\* The handler's outcome ignored: markEventProcessed follows even a throw.
afterDispatch_AlwaysMark(raised) == "mark"

\* Where the handler goes once the dispatched handler ended: the catch answers
\* 500 without marking, the normal path marks the event.
afterDispatch(raised) == IF raised THEN "done" ELSE "mark"

\* The events Stripe may deliver, each with its own event id.
EventCatalog ==
    { [NoEvent EXCEPT !.id = 1, !.type = "checkout.session.completed", !.known = TRUE,
                      !.metaType = "topup", !.credits = 50],
      [NoEvent EXCEPT !.id = 2, !.type = "checkout.session.completed", !.known = TRUE,
                      !.metaType = "trial", !.app = "keywords"],
      [NoEvent EXCEPT !.id = 3, !.type = "invoice.payment_succeeded", !.known = TRUE,
                      !.hasSub = TRUE, !.reason = "subscription_cycle", !.app = "keywords",
                      !.priceId = "price_keywords", !.status = "active"],
      [NoEvent EXCEPT !.id = 4, !.type = "invoice.payment_succeeded", !.known = TRUE,
                      !.hasSub = TRUE, !.reason = "subscription_create", !.app = "keywords",
                      !.priceId = "price_keywords", !.status = "trialing"],
      [NoEvent EXCEPT !.id = 5, !.type = "customer.subscription.updated", !.known = TRUE,
                      !.app = "labs", !.priceId = "price_labs_base", !.status = "active"],
      [NoEvent EXCEPT !.id = 6, !.type = "customer.subscription.updated", !.known = TRUE,
                      !.app = "keywords", !.priceId = "price_keywords",
                      !.status = "canceled", !.trialEnd = TRUE],
      [NoEvent EXCEPT !.id = 7, !.type = "customer.subscription.deleted", !.known = TRUE,
                      !.app = "labs", !.priceId = "price_labs_base", !.status = "canceled"],
      [NoEvent EXCEPT !.id = 8, !.type = "customer.subscription.paused", !.known = TRUE,
                      !.app = "labs", !.priceId = "price_labs_base", !.status = "active",
                      !.paused = TRUE],
      [NoEvent EXCEPT !.id = 9, !.type = "customer.subscription.resumed", !.known = TRUE,
                      !.app = "labs", !.priceId = "price_labs_base", !.status = "active"],
      [NoEvent EXCEPT !.id = 10, !.type = "invoice.payment_failed", !.known = TRUE] }

Ws == [acct |-> account, log |-> txns, subs |-> subs]

\* A request whose signature does not verify: 400, nothing is read or written.
Reject(d) ==
    /\ pc[d] = "idle"
    /\ \A d2 \in Deliveries : d2 < d => pc[d2] /= "idle"
    /\ pc' = [pc EXCEPT ![d] = "done"]
    /\ resp' = [resp EXCEPT ![d] = "rejected"]
    /\ UNCHANGED <<account, txns, subs, now, nops, last, proc, stripe_events, dlv, hist>>

\* Stripe delivers event ev (for the first time or again); the signature verifies.
Receive(d, ev) ==
    /\ pc[d] = "idle"
    /\ \A d2 \in Deliveries : d2 < d => pc[d2] /= "idle"
    /\ pc' = [pc EXCEPT ![d] = "received"]
    /\ dlv' = [dlv EXCEPT ![d] = ev]
    /\ hist' = [hist EXCEPT ![d].replay =
                   \E d2 \in Deliveries : resp[d2] = "processed" /\ dlv[d2].id = ev.id]
    /\ UNCHANGED <<account, txns, subs, now, nops, last, proc, stripe_events, resp>>

\* The idempotency check.
Check(d) ==
    /\ pc[d] = "received"
    /\ IF isEventProcessed(stripe_events, dlv[d].id)
       THEN /\ pc' = [pc EXCEPT ![d] = "done"]
            /\ resp' = [resp EXCEPT ![d] = "duplicate"]
       ELSE /\ pc' = [pc EXCEPT ![d] = "dispatch"]
            /\ resp' = resp
    /\ UNCHANGED <<account, txns, subs, now, nops, last, proc, stripe_events, dlv, hist>>

\* The switch runs the event's handler, which returns or throws.
Dispatch(d, fault) ==
    /\ pc[d] = "dispatch"
    /\ LET out == dispatch(Ws, now, dlv[d], fault) IN
       /\ account' = out.acct
       /\ txns' = out.log
       /\ subs' = out.subs
       /\ pc' = [pc EXCEPT ![d] = afterDispatch(out.raised)]
       /\ resp' = [resp EXCEPT ![d] = IF pc'[d] = "done" THEN "failed" ELSE ""]
       /\ hist' = [hist EXCEPT ![d].ran = TRUE,
                               ![d].fault = fault,
                               ![d].raised = out.raised,
                               ![d].wrote = (out.acct /= account \/ out.log /= txns
                                             \/ out.subs /= subs)]
    /\ UNCHANGED <<now, nops, last, proc, stripe_events, dlv>>

\* markEventProcessed, then the 200 response.
Mark(d) ==
    /\ pc[d] = "mark"
    /\ stripe_events' = markEventProcessed(stripe_events, dlv[d].id)
    /\ pc' = [pc EXCEPT ![d] = "done"]
    /\ resp' = [resp EXCEPT ![d] = "processed"]
    /\ hist' = [hist EXCEPT ![d].marks = @ + 1]
    /\ UNCHANGED <<account, txns, subs, now, nops, last, proc, dlv>>

NextWebhook ==
    \/ \E d \in Deliveries : Reject(d)
    \/ \E d \in Deliveries, ev \in EventCatalog : Receive(d, ev)
    \/ \E d \in Deliveries : Check(d)
    \/ \E d \in Deliveries, f \in Faults : Dispatch(d, f)
    \/ \E d \in Deliveries : Mark(d)

SpecWebhook == Init /\ [][NextWebhook]_vars

----------------------------------------------------------------------------
(* The webhook handler over the events of a trial's life *)

\* A trial checkout, the invoices of a subscription and the updates of the
\* subscriptions of two apps, with and without a trial_end.
TrialEventCatalog ==
    { [NoEvent EXCEPT !.id = 2, !.type = "checkout.session.completed", !.known = TRUE,
                      !.metaType = "trial", !.app = "keywords"],
      [NoEvent EXCEPT !.id = 3, !.type = "invoice.payment_succeeded", !.known = TRUE,
                      !.hasSub = TRUE, !.reason = "subscription_cycle", !.app = "keywords",
                      !.priceId = "price_keywords", !.status = "active"],
      [NoEvent EXCEPT !.id = 5, !.type = "customer.subscription.updated", !.known = TRUE,
                      !.app = "labs", !.priceId = "price_labs_base", !.status = "active"],
      [NoEvent EXCEPT !.id = 6, !.type = "customer.subscription.updated", !.known = TRUE,
                      !.app = "keywords", !.priceId = "price_keywords",
                      !.status = "canceled", !.trialEnd = TRUE],
      [NoEvent EXCEPT !.id = 11, !.type = "invoice.payment_succeeded", !.known = TRUE,
                      !.hasSub = TRUE, !.reason = "subscription_create", !.app = "keywords",
                      !.priceId = "price_keywords", !.status = "active"],
      [NoEvent EXCEPT !.id = 12, !.type = "customer.subscription.updated", !.known = TRUE,
                      !.app = "labs", !.priceId = "price_labs_base",
                      !.status = "canceled", !.trialEnd = TRUE],
      [NoEvent EXCEPT !.id = 13, !.type = "customer.subscription.updated", !.known = TRUE,
                      !.app = "keywords", !.priceId = "price_keywords",
                      !.status = "active", !.trialEnd = TRUE],
      [NoEvent EXCEPT !.id = 14, !.type = "customer.subscription.updated", !.known = TRUE,
                      !.app = "keywords", !.priceId = "price_keywords",
                      !.status = "trialing", !.trialEnd = TRUE] }

NextTrials ==
    \/ \E d \in Deliveries : Reject(d)
    \/ \E d \in Deliveries, ev \in TrialEventCatalog : Receive(d, ev)
    \/ \E d \in Deliveries : Check(d)
    \/ \E d \in Deliveries, f \in Faults : Dispatch(d, f)
    \/ \E d \in Deliveries : Mark(d)

SpecTrials == Init /\ [][NextTrials]_vars

----------------------------------------------------------------------------
(* Cap reconciliation over the subscription records of several apps *)

\* The (app, status, price id) a sync can store: a price of the catalog, a
\* price the catalog does not know, no price, an app without a plan.
CapSyncInputs ==
    {[app |-> "keywords", status |-> "active",   priceId |-> "price_keywords"],
     [app |-> "keywords", status |-> "canceled", priceId |-> "price_keywords"],
     [app |-> "labs",     status |-> "trialing", priceId |-> "price_labs_pro"],
     [app |-> "labs",     status |-> "past_due", priceId |-> "price_unknown"],
     [app |-> "labs",     status |-> "paused",   priceId |-> "price_labs_pro"],
     [app |-> "other",    status |-> "active",   priceId |-> ""],
     [app |-> "other",    status |-> "canceled", priceId |-> ""]}

\* syncAppSubscription of one subscription.
SyncPlan(appKey, status, priceId) ==
    /\ subs' = syncAppSubscription(subs, appKey, status, status = "paused", priceId)
    /\ subs' /= subs
    /\ UNCHANGED <<account, txns, now, nops, last, webhookVars, proc>>

NextCap ==
    \/ \E n \in SubscriptionAmounts : AllocateSubscription(n, "keywords")
    \/ \E i \in CapSyncInputs : SyncPlan(i.app, i.status, i.priceId)
    \/ RecalculateCap

SpecCap == Init /\ [][NextCap]_vars

----------------------------------------------------------------------------
(* The ledger step by step: each call is a read, an update of the row and  *)
(* the inserts of its transactions, and the calls of two callers interleave *)

\* The functions that open with ensureUserCreditsRow.
EnsuringOps ==
    {"allocateSubscriptionCredits", "allocateTopUpCredits", "allocateRetentionBonus",
     "allocateTrialCredits"}

\* The functions whose inserts read the balance again after the update.
RereadingOps == {"expireTrialCredits", "mergeTrialCredits"}

\* The columns the `.update({...})` of each function assigns.
WriteSet(op) ==
    CASE op = "deductCredits" -> {"trial", "topup", "sub", "spent"}
      [] op = "allocateSubscriptionCredits" -> {"sub", "earned"}
      [] op = "allocateTopUpCredits" -> {"topup", "earned"}
      [] op = "allocateRetentionBonus" -> {"topup", "earned"}
      [] op = "allocateTrialCredits" -> {"trial", "exp", "earned"}
      [] op = "expireTrialCredits" -> {"trial", "exp"}
      [] op = "mergeTrialCredits" -> {"trial", "exp", "sub"}
      [] op = "recalculateSubscriptionCap" -> {"cap"}
      [] OTHER -> {}

\* What the function computes from the row it read: the operator of the
\* function applied to that row and an empty log.  ok = FALSE: the read fails.
computeFrom(op, args, acct, t, table, ok) ==
    LET st == [acct |-> acct, log |-> <<>>] IN
    CASE op = "deductCredits" ->
            deductCredits(st, t, args.appKey, args.operation, 0, ok)
      [] op = "allocateSubscriptionCredits" ->
            allocateSubscriptionCredits(st, t, args.amount, args.appKey, 0, ok)
      [] op = "allocateTopUpCredits" -> allocateTopUpCredits(st, t, args.amount, 0, ok)
      [] op = "allocateRetentionBonus" -> allocateRetentionBonus(st, t, args.amount, ok)
      [] op = "allocateTrialCredits" ->
            allocateTrialCredits(st, t, args.amount, args.appKey, args.trialEndsAt, 0, ok)
      [] op = "expireTrialCredits" -> expireTrialCredits(st, t, args.appKey, TRUE)
      [] op = "mergeTrialCredits" -> mergeTrialCredits(st, t, args.appKey, TRUE)
      [] OTHER -> recalculateSubscriptionCap(st, table, ok)

\* The function returns (or throws) before its update: a throw, an allocation
\* of 0, a trial operation on a stored trial balance of 0, a failed lookup.
returnsBeforeUpdate(op, acct, out, ok) ==
    \/ ~out.res.ok
    \/ op = "allocateSubscriptionCredits" /\ out.res.allocated = 0
    \/ op \in RereadingOps /\ (~acct.exists \/ acct.trial = 0)
    \/ op = "recalculateSubscriptionCap" /\ ~ok

\* An update guarded by the row it was computed from: it applies only while
\* the row still holds what the caller read.
updateMatches_IfUnchanged(acct, snap) == acct.exists /\ acct = snap

\* `.eq("user_id", userId)`: the row an update applies to is chosen by the
\* user id alone, whatever the row held when the caller read it.
updateMatches(acct, snap) == acct.exists

\* The row after `.update(fields of row)`.
applyUpdate(acct, fields, row) ==
    [exists |-> acct.exists,
     sub    |-> IF "sub" \in fields THEN row.sub ELSE acct.sub,
     topup  |-> IF "topup" \in fields THEN row.topup ELSE acct.topup,
     trial  |-> IF "trial" \in fields THEN row.trial ELSE acct.trial,
     exp    |-> IF "exp" \in fields THEN row.exp ELSE acct.exp,
     cap    |-> IF "cap" \in fields THEN row.cap ELSE acct.cap,
     earned |-> IF "earned" \in fields THEN row.earned ELSE acct.earned,
     spent  |-> IF "spent" \in fields THEN row.spent ELSE acct.spent]

\* The calls a caller can make at time t.
StepOperations == {"search", "report"}
StepSubscriptionAmounts == {300}

StepCalls(t) ==
    {[op |-> "deductCredits", args |-> [Args EXCEPT !.appKey = a, !.operation = o]] :
        a \in DeductApps, o \in StepOperations}
    \cup {[op |-> "allocateSubscriptionCredits",
           args |-> [Args EXCEPT !.appKey = "keywords", !.amount = n]] :
            n \in StepSubscriptionAmounts}
    \cup {[op |-> "allocateTopUpCredits", args |-> [Args EXCEPT !.amount = n]] :
            n \in TopUpAmounts}
    \cup {[op |-> "allocateRetentionBonus", args |-> [Args EXCEPT !.amount = n]] :
            n \in BonusAmounts}
    \cup {[op |-> "allocateTrialCredits",
           args |-> [Args EXCEPT !.appKey = "keywords", !.amount = n,
                                 !.trialEndsAt = t + TrialDays]] :
            n \in TrialAmounts}
    \cup {[op |-> o, args |-> [Args EXCEPT !.appKey = "keywords"]] : o \in RereadingOps}
    \cup {[op |-> "recalculateSubscriptionCap", args |-> Args]}

\* What the store does with an insert: it takes it, it rejects it (the source
\* does not look), or the getBalance read before it fails (getBalance throws).
InsertOutcomes(op) ==
    {"ok", "rejected"} \cup (IF op \in RereadingOps THEN {"readFailed"} ELSE {})

\* A caller enters a ledger function.
Begin(p, op, args) ==
    /\ proc[p].pc = "idle"
    /\ nops < MaxCalls
    /\ nops' = nops + 1
    /\ proc' = [proc EXCEPT ![p] =
                  [NoProc EXCEPT !.pc = IF op \in EnsuringOps THEN "ensure" ELSE "read",
                                 !.op = op, !.args = args]]
    /\ UNCHANGED <<account, txns, subs, now, last, webhookVars>>

\* ensureUserCreditsRow: the row is inserted when the select finds none; the
\* result of the insert is not looked at.
Ensure(p, ok) ==
    /\ proc[p].pc = "ensure"
    /\ account' = IF ok THEN ensureUserCreditsRow(account) ELSE account
    /\ proc' = [proc EXCEPT ![p].pc = "read"]
    /\ UNCHANGED <<txns, subs, now, nops, last, webhookVars>>

\* The read (getBalance, the select of the trial operations, or the lookup of
\* the subscriptions) and everything the function computes from it.
Read(p, ok) ==
    /\ proc[p].pc = "read"
    /\ LET out == computeFrom(proc[p].op, proc[p].args, account, now, subs, ok) IN
       proc' = [proc EXCEPT ![p] =
                  IF returnsBeforeUpdate(proc[p].op, account, out, ok)
                  THEN [@ EXCEPT !.pc = "done", !.snap = account, !.res = out.res]
                  ELSE [@ EXCEPT !.pc = "update", !.snap = account,
                                 !.fields = WriteSet(proc[p].op), !.row = out.acct,
                                 !.rows = out.log, !.planned = Len(out.log),
                                 !.res = out.res]]
    /\ UNCHANGED <<account, txns, subs, now, nops, last, webhookVars>>

\* The update of the row; a rejected update is not noticed by the function.
Update(p, ok) ==
    /\ proc[p].pc = "update"
    /\ LET applied == ok /\ updateMatches(account, proc[p].snap) IN
       /\ account' = IF applied
                     THEN applyUpdate(account, proc[p].fields, proc[p].row)
                     ELSE account
       /\ proc' = [proc EXCEPT ![p].pc = IF proc[p].rows = <<>> THEN "done" ELSE "insert",
                               ![p].updated = applied,
                               ![p].rejected = @ \/ ~ok]
    /\ UNCHANGED <<txns, subs, now, nops, last, webhookVars>>

\* The insert of the next transaction.
Insert(p, outcome) ==
    /\ proc[p].pc = "insert"
    /\ LET op == proc[p].op
           planned == Head(proc[p].rows)
           row == IF op \in RereadingOps
                  THEN [planned EXCEPT !.balance_after = getBalance(account, now).total]
                  ELSE planned
           rest == Tail(proc[p].rows)
       IN
       IF outcome = "readFailed"
       THEN /\ txns' = txns
            /\ proc' = [proc EXCEPT ![p].pc = "done", ![p].rows = <<>>,
                           ![p].res = [Result EXCEPT !.ok = FALSE,
                                                     !.err = "StoreUnavailable"]]
       ELSE /\ txns' = IF outcome = "ok" THEN Append(txns, row) ELSE txns
            /\ proc' = [proc EXCEPT
                  ![p].pc = IF rest = <<>> THEN "done" ELSE "insert",
                  ![p].rows = rest,
                  ![p].inserted = IF outcome = "ok" THEN @ + 1 ELSE @,
                  ![p].rejected = @ \/ outcome = "rejected",
                  ![p].res = IF op = "deductCredits"
                             THEN [@ EXCEPT !.transactionId =
                                      IF outcome = "ok" THEN Len(txns) + 1 ELSE 0]
                             ELSE @]
    /\ UNCHANGED <<account, subs, now, nops, last, webhookVars>>

\* The function returns to its caller.
Return(p) ==
    /\ proc[p].pc = "done"
    /\ proc' = [proc EXCEPT ![p] = NoProc]
    /\ UNCHANGED <<account, txns, subs, now, nops, last, webhookVars>>

NextSteps ==
    \/ \E p \in Procs, c \in StepCalls(now) : Begin(p, c.op, c.args)
    \/ \E p \in Procs, ok \in BOOLEAN : Ensure(p, ok)
    \/ \E p \in Procs, ok \in BOOLEAN : Read(p, ok)
    \/ \E p \in Procs, ok \in BOOLEAN : Update(p, ok)
    \/ \E p \in Procs : \E o \in InsertOutcomes(proc[p].op) : Insert(p, o)
    \/ \E p \in Procs : Return(p)
    \/ \E a \in SyncApps : SyncSubscription(a, "active")

SpecSteps == Init /\ [][NextSteps]_vars

----------------------------------------------------------------------------
(* Properties of the ledger under direct calls (Spec) *)

\* The step is a completed ledger call named op.
Called(op) == nops' = nops + 1 /\ last'.op = op

\* The stored trial balance, counted as 0 once its expiry has passed.
EffectiveTrial(row, t) ==
    IF row.exp = NULL \/ row.exp >= t THEN row.trial ELSE 0

\* The active catalog costs of the call's (appKey, operation).
CostsOf(args) ==
    {r.credit_cost : r \in {c \in app_credit_config :
        c.app_key = args.appKey /\ c.operation = args.operation /\ c.is_active = TRUE}}

\* C5: getBalance returns total = subscription + top-up + effective trial, the
\* effective trial being the stored one unless trialExpiresAt has passed, and
\* reports that effective value as trialBalance; without a row it returns
\* zero balances and cap 900.
C5_BalanceTotal ==
    [][Called("getBalance") =>
        LET b == last'.balance IN
        IF account.exists
        THEN /\ b.trialBalance = EffectiveTrial(account, now)
             /\ b.subscriptionBalance = account.sub
             /\ b.topupBalance = account.topup
             /\ b.total = account.sub + account.topup + EffectiveTrial(account, now)
             /\ b.cap = account.cap
        ELSE /\ b.subscriptionBalance = 0 /\ b.topupBalance = 0 /\ b.trialBalance = 0
             /\ b.total = 0 /\ b.cap = 900
    ]_vars

\* getBalance answered for a row holding all three pools, the trial not expired.
C5_Witness ==
    /\ last.op = "getBalance"
    /\ account.sub > 0 /\ account.topup > 0 /\ account.trial > 0
    /\ last.balance.total = account.sub + account.topup + account.trial

\* C6: getBalance leaves the store unchanged: it creates no row, and on an
\* expired trial it reports trialBalance 0 while the stored trial balance and
\* expiry keep their values.
C6_BalanceReadOnly ==
    [][Called("getBalance") =>
        /\ account' = account
        /\ txns' = txns
        /\ subs' = subs
        /\ (account.exists /\ account.exp /= NULL /\ account.exp < now
                => last'.balance.trialBalance = 0)
    ]_vars

\* getBalance answered 0 for an expired trial whose 100 credits are still stored.
C6_Witness ==
    /\ last.op = "getBalance"
    /\ account.exists /\ account.trial > 0
    /\ account.exp /= NULL /\ account.exp < now
    /\ last.balance.trialBalance = 0


\* C7: a successful deduction of cost c drains the effective trial first, then
\* the top-up, then the subscription: fromTrial = min(c, t), fromTopup =
\* min(c - fromTrial, u), fromSub the rest; top-up is touched only with the
\* trial at 0, subscription only with trial and top-up at 0; newBalance and
\* the next getBalance total are the old total minus c; lifetimeSpent grows by c.
C7_DrainOrder ==
    [][(Called("deductCredits") /\ last'.res.ok) =>
        \E c \in CostsOf(last'.args) :
            LET t == EffectiveTrial(account, now)
                u == account.topup
                s == account.sub
                fromTrial == Min(c, t)
                fromTopup == Min(c - fromTrial, u)
                fromSub == c - fromTrial - fromTopup
            IN  /\ t + u + s >= c
                /\ account'.trial = t - fromTrial
                /\ account'.topup = u - fromTopup
                /\ account'.sub = s - fromSub
                /\ (account'.topup /= u => account'.trial = 0)
                /\ (account'.sub /= s => account'.trial = 0 /\ account'.topup = 0)
                /\ last'.res.newBalance = t + u + s - c
                /\ getBalance(account', now').total = t + u + s - c
                /\ account'.spent = account.spent + c
    ]_vars

\* A deduction went through all three pools: its three rows end the log.
C7_Witness ==
    /\ last.op = "deductCredits" /\ last.res.ok
    /\ Len(txns) >= 3
    /\ LET n == Len(txns) IN
       /\ txns[n - 2].pool = "trial" /\ txns[n - 2].type = "usage_deduction"
       /\ txns[n - 1].pool = "topup" /\ txns[n - 1].type = "usage_deduction"
       /\ txns[n].pool = "subscription" /\ txns[n].type = "usage_deduction"
    /\ account.sub > 0

\* C8: a deduction that fails, with InsufficientCredits (total < cost, carrying
\* required = cost and available = total) or with UnknownOperation (no active
\* cost entry), leaves the row unchanged and appends no transaction.
C8_FailedDeductNoEffect ==
    [][Called("deductCredits") =>
        LET total == IF account.exists
                     THEN account.sub + account.topup + EffectiveTrial(account, now)
                     ELSE 0
            costs == CostsOf(last'.args)
            r == last'.res
        IN  /\ (costs = {} => ~r.ok /\ r.err = "UnknownOperation")
            /\ \A c \in costs :
                   total < c => /\ ~r.ok /\ r.err = "InsufficientCredits"
                                /\ r.required = c /\ r.available = total
            /\ (~r.ok => account' = account /\ txns' = txns)
    ]_vars

\* A deduction was refused for want of credits on a row that holds some.
C8_Witness ==
    /\ last.op = "deductCredits" /\ ~last.res.ok
    /\ last.res.err = "InsufficientCredits"
    /\ last.res.available > 0 /\ last.res.required > last.res.available
    /\ account.exists


\* The rows a call appended to the log.
Appended == SubSeq(txns', Len(txns) + 1, Len(txns'))

C10_TrialMerge ==
    [][(Called("mergeTrialCredits") /\ last'.res.ok) =>
        LET t == IF account.exists THEN account.trial ELSE 0 IN
        IF t = 0
        THEN last'.res.merged = 0 /\ account' = account /\ txns' = txns
        ELSE LET merged == Min(t, Max(0, account.cap - account.sub))
                 kept == IF merged > 0 THEN <<[type |-> "trial_merge", amount |-> merged]>>
                         ELSE <<>>
                 lost == IF t > merged
                         THEN <<[type |-> "trial_merge_overflow", amount |-> -(t - merged)]>>
                         ELSE <<>>
             IN  /\ last'.res.merged = merged
                 /\ account'.trial = 0
                 /\ account'.exp = NULL
                 /\ account'.sub = account.sub + merged
                 /\ [i \in 1..Len(Appended) |->
                        [type |-> Appended[i].type, amount |-> Appended[i].amount]]
                      = kept \o lost
    ]_vars

\* A merge hit the cap: a trial_merge row and a trial_merge_overflow row end the log.
C10_Witness ==
    /\ last.op = "mergeTrialCredits"
    /\ Len(txns) >= 2
    /\ txns[Len(txns) - 1].type = "trial_merge" /\ txns[Len(txns) - 1].amount > 0
    /\ txns[Len(txns)].type = "trial_merge_overflow" /\ txns[Len(txns)].amount < 0
    /\ account.trial = 0 /\ account.sub = account.cap

\* C4: in every reachable state the subscription balance is within the cap.
C4_SubscriptionWithinCap == account.exists => account.sub <= account.cap


\* C1: a delivery of an event id that an earlier invocation has already
\* processed successfully runs no handler, changes no row, appends no
\* transaction, writes no record, and answers duplicate.
C1_ReplayIsDuplicate ==
    \A d \in Deliveries :
        hist[d].replay =>
            /\ ~hist[d].ran /\ ~hist[d].wrote /\ hist[d].marks = 0
            /\ pc[d] \in {"received", "done"}
            /\ pc[d] = "done" => resp[d] = "duplicate"

\* An event that appended to the ledger was processed, then delivered again and
\* answered duplicate.
C1_Witness ==
    \E d1, d2 \in Deliveries :
        /\ resp[d1] = "processed" /\ hist[d1].wrote /\ Len(txns) > 0
        /\ dlv[d2].id = dlv[d1].id
        /\ hist[d2].replay /\ resp[d2] = "duplicate"

\* C2: over any set of deliveries of one event id, at most one delivery
\* applies the event's side effects.
C2_AtMostOncePerEvent ==
    \A d1, d2 \in Deliveries :
        (d1 /= d2 /\ dlv[d1].id = dlv[d2].id /\ dlv[d1].id /= NoEvent.id) =>
            ~(hist[d1].wrote /\ hist[d2].wrote)

\* C3: a delivery whose handler raised writes no record and answers failure; a
\* delivery whose handler returned writes the record once, after the handler
\* has finished, and no record is written before a handler has returned.
C3_MarkOnlyAfterSuccess ==
    \A d \in Deliveries :
        /\ (hist[d].ran /\ hist[d].raised) =>
              hist[d].marks = 0 /\ pc[d] = "done" /\ resp[d] = "failed"
        /\ (hist[d].ran /\ ~hist[d].raised) =>
              /\ pc[d] \in {"mark", "done"}
              /\ pc[d] = "mark" => hist[d].marks = 0
              /\ pc[d] = "done" =>
                    /\ hist[d].marks = 1 /\ resp[d] = "processed"
                    /\ dlv[d].id \in stripe_events
        /\ hist[d].marks > 0 => (hist[d].ran /\ ~hist[d].raised)
        /\ (dlv[d].id \in stripe_events) =>
              \E d2 \in Deliveries :
                  dlv[d2].id = dlv[d].id /\ hist[d2].ran /\ ~hist[d2].raised

\* One delivery of an event failed and left no record; a retry of the same
\* event returned and wrote it.
C3_Witness ==
    \E d1, d2 \in Deliveries :
        /\ dlv[d1].id = dlv[d2].id
        /\ hist[d1].raised /\ resp[d1] = "failed" /\ hist[d1].marks = 0
        /\ hist[d2].ran /\ ~hist[d2].raised /\ hist[d2].marks = 1
        /\ resp[d2] = "processed"


\* The event types whose handler syncs the subscription and recalculates the cap.
SyncEventTypes ==
    {"customer.subscription.updated", "customer.subscription.deleted",
     "customer.subscription.paused", "customer.subscription.resumed"}

\* C13: when the subscription lookup of recalculateSubscriptionCap fails, the
\* recalculation returns 900 without throwing and without writing the stored
\* cap, and the subscription handler that called it goes on: the subscription
\* record is synced, the handler returns and the event is marked.
C13_CapLookupFailSoft ==
    [][\A d \in Deliveries :
        (pc[d] = "dispatch" /\ pc'[d] /= "dispatch" /\ hist'[d].fault = "subs"
            /\ dlv[d].type \in SyncEventTypes /\ dlv[d].known) =>
            LET table == syncAppSubscription(subs, dlv[d].app, dlv[d].status,
                                             dlv[d].paused, dlv[d].priceId)
                c == recalculateSubscriptionCap(Ws, table, FALSE)
            IN  /\ c.res.ok /\ c.res.cap = DefaultCap
                /\ account'.cap = account.cap
                /\ subs' = table
                /\ ~hist'[d].raised
                /\ pc'[d] = "mark"
    ]_vars

\* A subscription event was processed although the lookup failed: the record is
\* synced and the row keeps a cap that a successful recalculation would replace.
C13_Witness ==
    \E d \in Deliveries :
        /\ hist[d].fault = "subs" /\ dlv[d].type \in SyncEventTypes
        /\ resp[d] = "processed"
        /\ account.exists
        /\ recalculateSubscriptionCap(Ws, subs, TRUE).res.cap /= account.cap

\* Delivery d's handler runs in this step.
Dispatched(d) == pc[d] = "dispatch" /\ pc'[d] /= "dispatch"

\* C23: an invoice-paid event with billing_reason subscription_create for a
\* subscription in status trialing causes no allocation, no trial merge and no
\* cap write, whatever the outcome of the handler's subscription lookup.
C23_SetupFeeNeverAllocates ==
    [][\A d \in Deliveries :
        (Dispatched(d) /\ dlv[d].type = "invoice.payment_succeeded"
            /\ dlv[d].reason = "subscription_create" /\ dlv[d].status = "trialing") =>
            account' = account /\ txns' = txns
    ]_vars

\* The types of the rows a step appended, in order.
AppendedTypes == [i \in 1..Len(Appended) |-> Appended[i].type]

C30_OtherAppsTrialSurvives ==
    [][\A d \in Deliveries :
        (/\ Dispatched(d) /\ hist'[d].fault = "none"
         /\ dlv[d].type = "customer.subscription.updated"
         /\ account.exists /\ account.trial > 0
         /\ account.exp /= NULL /\ account.exp >= now
         /\ \E i \in 1..Len(txns) : txns[i].type = "trial_allocation"
         /\ \A i \in 1..Len(txns) :
               txns[i].type = "trial_allocation" => txns[i].app_key /= dlv[d].app) =>
            account'.trial = account.trial
    ]_vars

----------------------------------------------------------------------------
(* Properties of the ledger step by step (SpecSteps) *)

\* The balance-changing functions: the deduction and the four allocations.
ChargingOps == EnsuringOps \cup {"deductCredits"}

\* C11: when a call of an allocation or a deduction has ended, the row and the
\* log are both in the state before the call or both in the state after it:
\* either the update was applied and every transaction inserted, or neither.
C11_AllOrNothing ==
    \A p \in Procs :
        (proc[p].pc = "done" /\ proc[p].op \in ChargingOps) =>
            \/ proc[p].updated /\ proc[p].inserted = proc[p].planned
            \/ ~proc[p].updated /\ proc[p].inserted = 0

\* C12: a call of an allocation or a deduction whose update or insert the
\* store rejected ends with an error, not with a success result.
C12_RejectedWriteSurfaces ==
    \A p \in Procs :
        (proc[p].pc = "done" /\ proc[p].op \in ChargingOps /\ proc[p].rejected) =>
            ~proc[p].res.ok


\* The row a call starts from: the stored one, or the one ensureUserCreditsRow creates.
RowBefore == IF account.exists THEN account ELSE NewRow

\* C15: allocateTopUpCredits and allocateRetentionBonus add the whole amount to
\* topupBalance and lifetimeEarned whatever the cap, leave subscriptionBalance
\* and trialBalance alone, return allocated = amount, and append exactly one
\* topup-pool transaction of +amount, tagged topup_purchase and
\* retention_bonus respectively.
C15_TopUpUncapped ==
    [][((Called("allocateTopUpCredits") \/ Called("allocateRetentionBonus"))
            /\ last'.res.ok) =>
        LET amount == last'.args.amount IN
        /\ last'.res.allocated = amount
        /\ account' = [RowBefore EXCEPT !.topup = @ + amount, !.earned = @ + amount]
        /\ Len(Appended) = 1
        /\ Appended[1].pool = "topup" /\ Appended[1].amount = amount
        /\ Appended[1].type = IF last'.op = "allocateTopUpCredits"
                              THEN "topup_purchase" ELSE "retention_bonus"
    ]_vars

\* A top-up and a bonus were both credited in full to an account whose
\* subscription balance sits at its cap.
C15_Witness ==
    /\ last.op \in {"allocateTopUpCredits", "allocateRetentionBonus"}
    /\ account.sub = account.cap
    /\ account.topup = 75
    /\ \E i, j \in 1..Len(txns) :
          txns[i].type = "topup_purchase" /\ txns[j].type = "retention_bonus"

\* C16: allocateTrialCredits overwrites: afterwards the stored trialBalance is
\* amount whatever it was, trialExpiresAt is trialEndsAt, lifetimeEarned has
\* grown by amount, and exactly one trial_allocation of +amount was appended.
C16_TrialOverwrites ==
    [][(Called("allocateTrialCredits") /\ last'.res.ok) =>
        LET amount == last'.args.amount IN
        /\ account' = [RowBefore EXCEPT !.trial = amount,
                                        !.exp = last'.args.trialEndsAt,
                                        !.earned = @ + amount]
        /\ Len(Appended) = 1
        /\ Appended[1].type = "trial_allocation" /\ Appended[1].amount = amount
    ]_vars

\* A second trial grant replaced a trial balance that was still there.
C16_Witness ==
    /\ last.op = "allocateTrialCredits"
    /\ account.trial = last.args.amount
    /\ account.earned = 2 * last.args.amount
    /\ Len(txns) = 2 /\ txns[1].type = "trial_allocation"

\* C17: expireTrialCredits does nothing when the stored trialBalance is 0;
\* otherwise it sets trialBalance to 0, clears trialExpiresAt, appends one
\* trial_expiry whose amount is minus the previous trialBalance, and leaves
\* lifetimeSpent, lifetimeEarned, subscriptionBalance and topupBalance alone.
C17_TrialExpiry ==
    [][(Called("expireTrialCredits") /\ last'.res.ok) =>
        IF ~account.exists \/ account.trial = 0
        THEN account' = account /\ txns' = txns
        ELSE /\ account' = [account EXCEPT !.trial = 0, !.exp = NULL]
             /\ Len(Appended) = 1
             /\ Appended[1].type = "trial_expiry"
             /\ Appended[1].amount = -account.trial
    ]_vars

\* A partly spent trial was expired: the loss is logged, the counters stand.
C17_Witness ==
    /\ last.op = "expireTrialCredits"
    /\ account.exists /\ account.trial = 0 /\ account.exp = NULL
    /\ account.spent > 0 /\ account.earned > 0
    /\ txns[Len(txns)].type = "trial_expiry"
    /\ txns[Len(txns)].amount = -(account.earned - account.spent - account.sub - account.topup)

\* A transaction row reduced to its pool, amount and balance_after.
PoolRow(pool, amount, balance_after) ==
    [pool |-> pool, amount |-> amount, balance_after |-> balance_after]

\* C21: a successful deductCredits appends one usage_deduction row per pool it
\* took a positive amount from and none for the others; the amounts are
\* negative and sum to minus the cost; the trial row carries total - fromTrial,
\* the top-up row total - fromTrial - fromTopup, the subscription row the new
\* total, so that the last row written carries the new total.
C21_OneRowPerPool ==
    [][(Called("deductCredits") /\ last'.res.ok) =>
        LET cost == CHOOSE c \in CostsOf(last'.args) : TRUE
            trial == EffectiveTrial(account, now)
            total == account.sub + account.topup + trial
            fromTrial == Min(cost, trial)
            fromTopup == Min(cost - fromTrial, account.topup)
            fromSub == cost - fromTrial - fromTopup
            expected ==
                (IF fromTrial > 0
                 THEN <<PoolRow("trial", -fromTrial, total - fromTrial)>> ELSE <<>>)
                \o (IF fromTopup > 0
                    THEN <<PoolRow("topup", -fromTopup, total - fromTrial - fromTopup)>>
                    ELSE <<>>)
                \o (IF fromSub > 0
                    THEN <<PoolRow("subscription", -fromSub, total - cost)>> ELSE <<>>)
        IN  /\ [i \in 1..Len(Appended) |->
                   PoolRow(Appended[i].pool, Appended[i].amount, Appended[i].balance_after)]
                 = expected
            /\ \A i \in 1..Len(Appended) : Appended[i].type = "usage_deduction"
            /\ Len(Appended) >= 1
            /\ Appended[Len(Appended)].balance_after = total - cost
            /\ last'.res.newBalance = total - cost
    ]_vars

\* One deduction drained the trial and the top-up pools and went on into the
\* subscription pool: three rows end the log, the last with the new total.
C21_Witness ==
    /\ last.op = "deductCredits" /\ last.res.ok
    /\ Len(txns) >= 3
    /\ txns[Len(txns) - 2].pool = "trial" /\ txns[Len(txns) - 2].type = "usage_deduction"
    /\ txns[Len(txns) - 1].pool = "topup" /\ txns[Len(txns) - 1].type = "usage_deduction"
    /\ txns[Len(txns)].pool = "subscription" /\ txns[Len(txns)].type = "usage_deduction"
    /\ txns[Len(txns)].balance_after = last.res.newBalance
    /\ txns[Len(txns)].balance_after = account.sub + account.topup + account.trial

\* The functions that append a single row.
SingleRowOps ==
    {"allocateSubscriptionCredits", "allocateTopUpCredits", "allocateRetentionBonus",
     "allocateTrialCredits", "expireTrialCredits"}

\* C22: the row appended by a subscription, top-up, retention-bonus or trial
\* allocation or by a trial expiry carries as balance_after the total that
\* getBalance reports right after the call, a trial allocation over a stored,
\* unexpired trial balance included.
C22_BalanceAfterIsTotal ==
    [][((\E op \in SingleRowOps : Called(op)) /\ last'.res.ok /\ Len(Appended) = 1) =>
          Appended[1].balance_after = getBalance(account', now).total
    ]_vars

\* C26: mergeTrialCredits never increases the total getBalance reports: the
\* total after the merge is the total before minus the overflow lost, also
\* when the stored trialExpiresAt has already passed.
C26_MergeNeverIncreasesTotal ==
    [][Called("mergeTrialCredits") =>
        getBalance(account', now').total <= getBalance(account, now).total]_vars

\* The sum of the amount fields of the rows of a transaction log.
RECURSIVE SumAmounts(_)
SumAmounts(log) ==
    IF log = <<>> THEN 0 ELSE log[1].amount + SumAmounts(Tail(log))

\* C27: in a sequential run from an empty account in which no operation
\* fails and no trial expiry time passes, the amounts of all transaction rows
\* sum to the total getBalance reports.
C27_AmountsSumToTotal ==
    now = 0 => SumAmounts(txns) = getBalance(account, now).total

\* C28: when an allocateTopUpCredits and a deductCredits on the same account
\* interleave and both succeed, the final topupBalance is the initial one plus
\* the allocated amount minus the part of the cost taken from the top-up pool.
C28_TopUpSurvivesDeduction ==
    \A p, q \in Procs :
        (/\ proc[p].op = "allocateTopUpCredits" /\ proc[q].op = "deductCredits"
         /\ proc[p].pc = "done" /\ proc[q].pc = "done"
         /\ proc[p].updated /\ proc[q].updated
         /\ ~proc[p].rejected /\ ~proc[q].rejected
         /\ proc[p].res.ok /\ proc[q].res.ok
         /\ proc[p].snap = proc[q].snap) =>
            account.topup = proc[p].snap.topup + proc[p].args.amount
                                - (proc[q].snap.topup - proc[q].row.topup)

\* C29: after recalculateSubscriptionCap returns c without a store failure,
\* getBalance reports cap = c, also for a user who has subscription records
\* but no account row yet.
C29_ReturnedCapIsStored ==
    [][Called("recalculateSubscriptionCap") =>
        getBalance(account', now').cap = last'.res.cap]_vars

\* C18: lifetimeEarned and lifetimeSpent never decrease, whatever the
\* interleaving of the calls on the account.
C18_CountersMonotonic ==
    [][account.exists =>
          account'.earned >= account.earned /\ account'.spent >= account.spent]_vars

\* C19: in every reachable state, interleavings of concurrent calls included,
\* the stored subscription, top-up and trial balances are non-negative.
C19_BalancesNonNegative ==
    account.sub >= 0 /\ account.topup >= 0 /\ account.trial >= 0

\* A deduction and a trial merge that read the same row have both written it.
C19_Witness ==
    \E p, q \in Procs :
        /\ proc[p].op = "deductCredits" /\ proc[q].op = "mergeTrialCredits"
        /\ proc[p].pc = "done" /\ proc[q].pc = "done"
        /\ proc[p].updated /\ proc[q].updated
        /\ proc[p].snap = proc[q].snap
        /\ proc[p].snap.trial > 0

\* C20: nothing guards the update of a deduction: once deductCredits has read
\* a sufficient balance, its update applies and it succeeds whatever another
\* call has written to the row since, so two simultaneous deductions can both
\* succeed on one balance and charge more than it held.
C20_NoGuardOnDeduction ==
    \A p \in Procs :
        (/\ proc[p].op = "deductCredits"
         /\ proc[p].pc \in {"insert", "done"}
         /\ proc[p].planned > 0
         /\ ~proc[p].rejected) =>
            proc[p].updated /\ proc[p].res.ok

\* Two deductions read the same balance, both succeeded, and together they
\* charged more than that balance.
C20_Witness ==
    \E p, q \in Procs :
        /\ p /= q
        /\ proc[p].op = "deductCredits" /\ proc[q].op = "deductCredits"
        /\ proc[p].pc = "done" /\ proc[q].pc = "done"
        /\ proc[p].res.ok /\ proc[q].res.ok
        /\ proc[p].updated /\ proc[q].updated
        /\ proc[p].snap = proc[q].snap
        /\ LET available == getBalance(proc[p].snap, now).total
           IN  (available - proc[p].res.newBalance)
                 + (available - proc[q].res.newBalance) > available

----------------------------------------------------------------------------
(* Properties of the cap reconciliation (SpecCap) *)

\* The apps whose subscription record counts toward the cap.
CountedApps ==
    {a \in Apps : subs[a].present /\ subs[a].status \in {"active", "trialing", "past_due"}}

\* The catalog entries matching the record's price id, and its app key.
PlansByPrice(a) ==
    {i \in 1..Len(SUBSCRIPTION_PLANS) :
        subs[a].priceId /= "" /\ SUBSCRIPTION_PLANS[i].priceId = subs[a].priceId}
PlansByApp(a) ==
    {i \in 1..Len(SUBSCRIPTION_PLANS) : SUBSCRIPTION_PLANS[i].appKey = a}

\* What the record of app a adds to the cap: 0 when it does not count.
CapOf(a) ==
    IF a \notin CountedApps THEN 0
    ELSE IF PlansByPrice(a) /= {}
    THEN SUBSCRIPTION_PLANS[CHOOSE i \in PlansByPrice(a) :
                               \A j \in PlansByPrice(a) : i <= j].creditCap
    ELSE IF PlansByApp(a) /= {}
    THEN SUBSCRIPTION_PLANS[CHOOSE i \in PlansByApp(a) :
                               \A j \in PlansByApp(a) : i <= j].creditCap
    ELSE 900

\* C14: recalculateSubscriptionCap writes to the row the sum, over the records
\* whose status is active, trialing or past_due and no others, of each
\* record's contribution (plan by price id, else first plan of the app, else
\* 900), and 900 when no record counts; it changes nothing else.
C14_CapIsSumOfCounted ==
    [][Called("recalculateSubscriptionCap") =>
        LET expected == IF CountedApps = {} THEN 900
                        ELSE CapOf("keywords") + CapOf("labs") + CapOf("other")
        IN  /\ last'.res.cap = expected
            /\ account.exists => account' = [account EXCEPT !.cap = expected]
            /\ ~account.exists => account' = account
            /\ txns' = txns
    ]_vars

\* The cap was written as the sum of two counted records (a price-id match of
\* 3000 and an app without a plan, 900) while a canceled record added nothing.
C14_Witness ==
    /\ last.op = "recalculateSubscriptionCap"
    /\ account.exists /\ account.cap = 3900
    /\ CountedApps = {"labs", "other"}
    /\ subs["keywords"].present /\ subs["keywords"].status = "canceled"

====
